---- MODULE Spec2Model ----
(***************************************************************************)
(* Gas2nel: the capture lifecycle of estimateGas / calculateMetrics.       *)
(*                                                                         *)
(* The repository holds three generations of the class:                    *)
(*   "legacy"  src/unnamed/part_000   hooks http.request, has the public   *)
(*             calculateMetrics                                            *)
(*   "http"    src/src/gas2nel.js 1-257    hooks http.request, fs.readFile,*)
(*             fs.writeFile                                                *)
(*   "https"   src/src/gas2nel.js 259-582  hooks https.request and four fs *)
(*             entry points                                                *)
(* One of them is loaded (variant). JavaScript runs one task at a time:    *)
(* `running` names the invocation whose synchronous segment holds the      *)
(* thread (0 = the event loop is free), and each statement of              *)
(* #captureMetrics is one step of that segment.                            *)
(*                                                                         *)
(* Specifications, told apart by `workload`:                               *)
(*   Spec       calls that may overlap                                     *)
(*   SeqSpec    calls one after the other, over every kind of outcome      *)
(*   CfgSpec    one call, with setOptions and reset called around and      *)
(*              during it                                                  *)
(*   TimedSpec  operations without I/O, over the readings of the clocks    *)
(*              and of memory                                              *)
(*   GasSpec    the estimator applied to sampled records                   *)
(*   ReportSpec the report generator applied to sampled records            *)
(*   IoSpec     one call whose operation writes to a request and calls     *)
(*              the file entry points in each of their forms               *)
(*   LiveSpec   calls one after the other under a fair event loop, the     *)
(*              operation free never to settle                             *)
(*   KeptSpec   calls one after the other whose Results the caller keeps,  *)
(*              with setOptions and reset called in between                *)
(***************************************************************************)
EXTENDS Integers, Sequences, FiniteSets, TLC

\* ---------------------------------------------------------------- bounds
MaxInv == 2
MaxIO == 1
MaxChunk == 1
MaxCfg == 2
MaxWrites == 2
MaxFs == 2

Inv == 1..MaxInv
Meters == {1, 2}
Chunks == 1..MaxChunk
Variants == {"legacy", "http", "https"}

\* ------------------------------------------------------ JavaScript values
JsVal(t, v) == [type |-> t, val |-> v]
Undefined == JsVal("undefined", "")
JsError(msg) == JsVal("Error", msg)
JsString(s) == JsVal("string", s)
JsTrue == JsVal("boolean", "true")

\* ToBoolean, as `!error` and `error ? ... : ...` apply it
Truthy(v) ==
    ~ \/ v.type \in {"undefined", "null"}
      \/ (v.type = "string" /\ v.val = "")
      \/ (v.type = "number" /\ v.val = "0")
      \/ (v.type = "boolean" /\ v.val = "false")

\* error.message: the message of an Error, undefined on any other object or
\* primitive
MessageOf(v) == IF v.type = "Error" THEN JsString(v.val) ELSE Undefined

\* what an operation may throw or reject with
Reasons ==
    { JsError("Test error"), JsString("boom"), Undefined,
      JsVal("number", "0"), JsString("") }

\* what an operation may return
Values == { JsTrue, Undefined }

\* the argument lists a caller passes
ArgLists == { <<>>, <<JsString("a")>> }

\* ------------------------------------------------------ JavaScript numbers
\* A Number is a finite rational in lowest terms, NaN or an infinity; a BigInt
\* is an integer of kind "bigint".
\* An operand is computed once, before the operation is applied to it: the
\* operators below take their operands as the members of a one-element set.
The(S) == CHOOSE x \in S : TRUE

RECURSIVE Gcd(_, _)
Gcd(a, b) == IF b = 0 THEN a ELSE The({ Gcd(b, r) : r \in { a % b } })

Abs(n) == IF n < 0 THEN -n ELSE n

\* n / d in lowest terms
Reduced(n, d) ==
    [kind |-> "finite", num |-> n \div Gcd(Abs(n), d), den |-> d \div Gcd(Abs(n), d)]

Num(n, d) == The({ Reduced(p[1], p[2]) : p \in { <<n, d>> } })

NaN == [kind |-> "NaN", num |-> 0, den |-> 1]
Infinity == [kind |-> "Infinity", num |-> 1, den |-> 1]
NegInfinity == [kind |-> "Infinity", num |-> -1, den |-> 1]
BigInt(n) == [kind |-> "bigint", num |-> n, den |-> 1]

IsFinite(x) == x.kind = "finite"
Sign(x) == IF x.num > 0 THEN 1 ELSE IF x.num < 0 THEN -1 ELSE 0

Sum(a, b) ==
    CASE a.kind = "NaN" \/ b.kind = "NaN" -> NaN
      [] a.kind = "Infinity" /\ b.kind = "Infinity" ->
            IF a.num = b.num THEN a ELSE NaN
      [] a.kind = "Infinity" -> a
      [] b.kind = "Infinity" -> b
      [] OTHER ->
            Num(a.num * (b.den \div Gcd(a.den, b.den))
                  + b.num * (a.den \div Gcd(a.den, b.den)),
                (a.den \div Gcd(a.den, b.den)) * b.den)

\* a + b
NumAdd(a, b) == The({ Sum(p[1], p[2]) : p \in { <<a, b>> } })

Product(a, b) ==
    CASE a.kind = "NaN" \/ b.kind = "NaN" -> NaN
      [] a.kind = "Infinity" \/ b.kind = "Infinity" ->
            IF Sign(a) * Sign(b) = 0 THEN NaN
            ELSE IF Sign(a) * Sign(b) > 0 THEN Infinity ELSE NegInfinity
      [] OTHER ->
            Num((a.num \div Gcd(Abs(a.num), b.den)) * (b.num \div Gcd(Abs(b.num), a.den)),
                (a.den \div Gcd(Abs(b.num), a.den)) * (b.den \div Gcd(Abs(a.num), b.den)))

\* a * b
NumMul(a, b) == The({ Product(p[1], p[2]) : p \in { <<a, b>> } })

Quotient(a, b) ==
    CASE a.kind = "NaN" \/ b.kind = "NaN" -> NaN
      [] a.kind = "Infinity" /\ b.kind = "Infinity" -> NaN
      [] a.kind = "Infinity" ->
            IF Sign(a) * (IF b.num < 0 THEN -1 ELSE 1) > 0
            THEN Infinity ELSE NegInfinity
      [] b.kind = "Infinity" -> Num(0, 1)
      [] b.num = 0 ->
            IF a.num = 0 THEN NaN
            ELSE IF a.num > 0 THEN Infinity ELSE NegInfinity
      [] OTHER ->
            NumMul(a, IF b.num > 0 THEN Num(b.den, b.num) ELSE Num(-b.den, -b.num))

\* a / b
NumDiv(a, b) == The({ Quotient(p[1], p[2]) : p \in { <<a, b>> } })

\* a >= b: false whenever either side is NaN
NumGeq(a, b) ==
    CASE a.kind = "NaN" \/ b.kind = "NaN" -> FALSE
      [] a.kind = "Infinity" /\ b.kind = "Infinity" -> a.num >= b.num
      [] a.kind = "Infinity" -> a.num > 0
      [] b.kind = "Infinity" -> b.num < 0
      [] OTHER -> Sign(NumAdd(a, Num(-b.num, b.den))) >= 0

\* BigInt division truncates toward zero
BigIntQuotient(a, b) ==
    IF (a < 0) = (b < 0) THEN Abs(a) \div Abs(b) ELSE -(Abs(a) \div Abs(b))

\* ------------------------------------------------------ integration points
Points == {"request", "readFile", "writeFile", "readFileSync", "writeFileSync"}

HookedPoints(v) ==
    CASE v = "legacy" -> {"request"}
      [] v = "http" -> {"request", "readFile", "writeFile"}
      [] v = "https" -> Points

\* the private tracker whose wrapper is stored at each point
Tracker(v, p) ==
    CASE p = "request" ->
            IF v = "https" THEN "trackhttpsBandwidth" ELSE "trackHttpBandwidth"
      [] p \in {"readFile", "readFileSync"} -> "trackFileRead"
      [] p \in {"writeFile", "writeFileSync"} -> "trackFileWrite"

\* A point's value is the original function (the empty stack) or a stack of
\* counting wrappers around it, innermost first; each wrapper closes over the
\* Meter (`this`) that built it.
Original == <<>>
Wrap(m, track, f) == Append(f, [meter |-> m, track |-> track])

\* The inputs each workload draws from: sequential calls are explored with
\* every failure reason, return value and argument list, the other workloads
\* with one of each.
ReasonsIn(w) == IF w = "sequential" THEN Reasons ELSE { JsError("Test error") }
ValuesIn(w) == IF w = "sequential" THEN Values ELSE { JsTrue }
ArgListsIn(w) == IF w = "sequential" THEN ArgLists ELSE { <<JsString("a")>> }

CounterNames == {"sentBytes", "receivedBytes", "fileReadBytes", "fileWriteBytes"}

CountersOf(v) ==
    IF v = "legacy" THEN {"sentBytes", "receivedBytes"} ELSE CounterNames

Apis(v) == IF v = "legacy" THEN {"calculateMetrics"} ELSE {"estimateGas"}

ZeroCounters == [c \in CounterNames |-> 0]

\* ------------------------------------------------------------ configuration
\* A configuration is a record of whatever fields the caller supplied; the
\* class reads `include`.
NoOptions == [f \in {} |-> <<>>]

\* new Gas2nel(options): the legacy constructor takes no argument
ConstructorOptions(w, v) ==
    IF w = "configured" /\ v # "legacy"
    THEN { NoOptions, [include |-> <<"metric", "report">>] }
    ELSE IF w = "kept"
    THEN { [include |-> <<"metric", "report">>] }
    ELSE { NoOptions }

\* the arguments setOptions is called with
OptionArgs ==
    { NoOptions, [include |-> <<"report">>], [include |-> <<"metric", "verbose">>],
      [label |-> "x"], [include |-> <<>>, label |-> "y"] }

\* this.options.include && this.options.include.includes(flag)
Includes(opts, flag) ==
    /\ "include" \in DOMAIN opts
    /\ \E k \in DOMAIN opts.include : opts.include[k] = flag

\* ------------------------------------------------------- process snapshots
MiB == 1024 * 1024

\* process.memoryUsage()
MemBase == [rss |-> 50 * MiB, heapUsed |-> 20 * MiB, external |-> 2 * MiB]
MemGrown == [rss |-> 55 * MiB, heapUsed |-> 15 * MiB, external |-> 3 * MiB]
\* after a collection: every reading below the one taken at the start
MemShrunk == [rss |-> 40 * MiB, heapUsed |-> 10 * MiB, external |-> 1 * MiB]

\* process.hrtime.bigint() at the start snapshot, in nanoseconds
StartTimes == { 1000 }

\* nanoseconds between the two readings of the clock
ElapsedIn(w) == IF w = "timed" THEN { 0, 25000000 } ELSE { 500000 }

\* process.cpuUsage(startCpu).user: microseconds of CPU since the start snapshot
CpuUserIn(w) == IF w = "timed" THEN { 0, 25000 } ELSE { 0 }

MemAfterIn(w) ==
    IF w = "timed" THEN { MemBase, MemGrown, MemShrunk } ELSE { MemBase }

NoSnap ==
    [startMem |-> MemBase, startTime |-> 0, endCpu |-> [user |-> 0],
     endMem |-> MemBase, endTime |-> 0]

VARIABLES
    workload,   \* which inputs are explored: "overlapping", "sequential",
                \* "configured", "timed", "estimator", "report", "live", "io"
                \* or "kept"
    variant,    \* which generation of the class is loaded
    points,     \* [Points -> wrapper stack]: the global integration points
    counters,   \* [Meters -> [CounterNames -> Nat]]: this.sentBytes ...
    running,    \* invocation holding the thread, 0 when none
    pc,         \* [Inv -> statement about to run]
    meter,      \* [Inv -> Meter the call was made on]
    api,        \* [Inv -> entry point called]
    args,       \* [Inv -> argument list supplied by the caller]
    saved,      \* [Inv -> [Points -> stack]]: originalRequest, originalReadFile ...
    error,      \* [Inv -> JS value]: `let error`
    result,     \* [Inv -> JS value]: `let result`
    metrics,    \* [Inv -> metrics record]
    ret,        \* [Inv -> what the entry point's promise settled with]
    ioCount,    \* [Inv -> number of I/O calls the operation has made]
    pending,    \* set of I/O callbacks not yet delivered
    \* history variables
    steps,      \* [Inv -> sequence of lifecycle steps executed]
    opRuns,     \* [Inv -> number of times fn was called]
    opArgs,     \* [Inv -> arguments fn was last called with]
    atCall,     \* [Inv -> points immediately before the call]
    atReturn,   \* [Inv -> points when the entry point returned]
    overlapped, \* [Inv -> set of invocations in flight at some time during it]
    own,        \* [Inv -> bytes the invocation's own operation moved in its window]
    window,     \* [Inv -> bytes of hook events on its Meter in its window]
    late,       \* [Inv -> bytes counted in its window for I/O of returned calls]
    outcome,    \* [Inv -> how the operation ended: "none", "completed", "failed"]
    timeline,   \* the calls ("call") and ends of capture ("captured"), in order
    \* configuration and process snapshots
    options,    \* [Meters -> configuration record]: this.options
    snap,       \* [Inv -> startMem, startTime, endCpu, endMem, endTime]
    \* history variables of the configuration
    optionsAtCall,   \* [Inv -> this.options when the entry point was called]
    optionsAtReturn, \* [Inv -> this.options when the entry point returned]
    cfgCall,    \* the last reset() / setOptions() made from outside, with the
                \* state immediately before and after it
    cfgCount,   \* number of such calls made
    sample,     \* the inputs and outputs of the estimator or of the report
                \* generator under test
    \* the objects the operation's I/O goes through
    requests,   \* [Inv -> the request the operation created through the hook]
    fsCalls     \* [Inv -> the file calls the operation made, in order]

progVars == <<workload, variant, points, counters, running, pc, meter, api, args, saved,
              error, result, metrics, ret, ioCount, pending>>
histVars == <<steps, opRuns, opArgs, atCall, atReturn, overlapped, own, window,
              late, outcome, timeline>>
cfgVars == <<options, cfgCall, cfgCount>>
envVars == <<snap, optionsAtCall, optionsAtReturn>>
ioVars == <<requests, fsCalls>>
vars == <<progVars, histVars, cfgVars, envVars, sample, ioVars>>

NoReturn == [state |-> "none", value |-> Undefined]

NoCfgCall == [op |-> "none"]

NoSample == [stage |-> "none"]

\* no request created yet
NoRequest ==
    [state |-> "none", socket |-> FALSE, stack |-> Original, writes |-> 0,
     written |-> 0, early |-> 0, ended |-> 0]

InFlight(i) == pc[i] \notin {"idle", "returned"}

\* between the reset of line 101 and the building of the record (133-144)
InWindow(i) ==
    pc[i] \in {"snapStart", "install", "opStart", "opSync", "awaiting",
               "restore", "snapEnd", "record"}

\* the generations that have #estimateRealisticGas and #generateReport, and
\* whose estimateGas is modelled
VariantsIn(w) ==
    IF w \in {"estimator", "report", "live", "io", "kept"}
    THEN {"http", "https"}
    ELSE Variants

\* the state after the Meters are constructed
Constructed(w) ==
    /\ workload = w
    /\ variant \in VariantsIn(w)
    /\ points = [p \in Points |-> Original]
    /\ counters = [m \in Meters |-> ZeroCounters]
    /\ running = 0
    /\ pc = [i \in Inv |-> "idle"]
    /\ meter = [i \in Inv |-> 1]
    /\ api = [i \in Inv |-> "estimateGas"]
    /\ args = [i \in Inv |-> <<>>]
    /\ saved = [i \in Inv |-> [p \in Points |-> Original]]
    /\ error = [i \in Inv |-> Undefined]
    /\ result = [i \in Inv |-> Undefined]
    /\ metrics = [i \in Inv |-> ZeroCounters]
    /\ ret = [i \in Inv |-> NoReturn]
    /\ ioCount = [i \in Inv |-> 0]
    /\ pending = {}
    /\ steps = [i \in Inv |-> <<>>]
    /\ opRuns = [i \in Inv |-> 0]
    /\ opArgs = [i \in Inv |-> <<>>]
    /\ atCall = [i \in Inv |-> [p \in Points |-> Original]]
    /\ atReturn = [i \in Inv |-> [p \in Points |-> Original]]
    /\ overlapped = [i \in Inv |-> {}]
    /\ own = [i \in Inv |-> ZeroCounters]
    /\ window = [i \in Inv |-> ZeroCounters]
    /\ late = [i \in Inv |-> ZeroCounters]
    /\ outcome = [i \in Inv |-> "none"]
    /\ timeline = <<>>
    /\ options \in [Meters -> ConstructorOptions(w, variant)]
    /\ snap = [i \in Inv |-> NoSnap]
    /\ optionsAtCall = [i \in Inv |-> NoOptions]
    /\ optionsAtReturn = [i \in Inv |-> NoOptions]
    /\ cfgCall = NoCfgCall
    /\ cfgCount = 0
    /\ requests = [i \in Inv |-> NoRequest]
    /\ fsCalls = [i \in Inv |-> <<>>]

InitWith(w) ==
    /\ Constructed(w)
    /\ sample = NoSample

\* a reset that zeroes the network counters only
ResetNetworkOnly(v, cs) ==
    [c \in CounterNames |->
        IF c \in {"sentBytes", "receivedBytes"} THEN 0 ELSE cs[c]]

\* ------------------------------------------------------------ the class
\* reset(): zero the counters this generation of the class has
ResetCounters(v, cs) ==
    [c \in CounterNames |-> IF c \in CountersOf(v) THEN 0 ELSE cs[c]]

\* originals that are always the unwrapped functions
SavedPristine(pts) == [p \in Points |-> Original]

\* const originalRequest = http.request; ... : the values read at install time
SavedOriginals(pts) == pts

\* http.request = this.#trackHttpBandwidth(originalRequest); ...
InstalledPoints(v, m, pts) ==
    [p \in Points |->
        IF p \in HookedPoints(v) THEN Wrap(m, Tracker(v, p), pts[p]) ELSE pts[p]]

\* a restore that forgets the request constructor
RestoredPointsButRequest(v, sv, pts) ==
    [p \in Points |->
        IF p \in HookedPoints(v) \ {"request"} THEN sv[p] ELSE pts[p]]

\* http.request = originalRequest; ...
RestoredPoints(v, sv, pts) ==
    [p \in Points |-> IF p \in HookedPoints(v) THEN sv[p] ELSE pts[p]]

\* the end snapshot taken before the hooks are removed
StepAfterSnapFirst(s) ==
    CASE s = "reset" -> "snapStart"
      [] s = "snapStart" -> "install"
      [] s = "install" -> "opStart"
      [] s = "opStart" -> "opSync"
      [] s = "opSettled" -> "snapEnd"
      [] s = "snapEnd" -> "restore"
      [] s = "restore" -> "record"
      [] s = "record" -> "assemble"

\* the statement order of #captureMetrics
StepAfter(s) ==
    CASE s = "reset" -> "snapStart"
      [] s = "snapStart" -> "install"
      [] s = "install" -> "opStart"
      [] s = "opStart" -> "opSync"
      [] s = "opSettled" -> "restore"
      [] s = "restore" -> "snapEnd"
      [] s = "snapEnd" -> "record"
      [] s = "record" -> "assemble"

\* fn(...args): the arguments the operation receives
InvokeArgs(as) == as

\* no catch clause: the failure leaves #captureMetrics
OnOperationFailureUncaught(r) ==
    [pc |-> "returned", error |-> r, state |-> "rejected"]

\* a catch clause that runs the operation again
OnOperationFailureRetry(r) ==
    [pc |-> "opStart", error |-> r, state |-> "none"]

\* try { result = await fn(...args) } catch (err) { error = err }
OnOperationFailure(r) ==
    [pc |-> StepAfter("opSettled"), error |-> r, state |-> "none"]

\* the fields of the record other than the counters
SnapshotFields ==
    {"cpuTimeMs", "wallTimeMs", "memoryHeapUsed", "memoryRSS", "memoryExternal",
     "cpuPercentage"}

MetricFields(v) == SnapshotFields \cup CountersOf(v)

\* endTime - startTime, in nanoseconds
ElapsedNs(sn) == sn.endTime - sn.startTime

\* cpuPercentage: microseconds of CPU over nanoseconds of wall time, times
\* 100; as a Number in the current class, as a BigInt in the legacy one
cpuPercentage(v, sn) ==
    IF v = "legacy"
    THEN BigInt(BigIntQuotient(sn.endCpu.user * 100, ElapsedNs(sn)))
    ELSE NumMul(NumDiv(Num(sn.endCpu.user, 1), Num(ElapsedNs(sn), 1)), Num(100, 1))

\* the legacy BigInt division throws RangeError when the divisor is 0n
MetricsThrows(v, sn) == v = "legacy" /\ ElapsedNs(sn) = 0

DivisionByZero == JsError("Division by zero")

\* const metrics = { cpuTimeMs: ..., ..., fileWriteBytes: ... }
MetricsRecord(v, cs, sn) ==
    [f \in MetricFields(v) |->
        CASE f = "cpuTimeMs" -> Num(sn.endCpu.user, 1000)
          [] f = "wallTimeMs" -> BigIntQuotient(ElapsedNs(sn), 1000000)
          [] f = "memoryHeapUsed" -> sn.endMem.heapUsed - sn.startMem.heapUsed
          [] f = "memoryRSS" -> sn.endMem.rss - sn.startMem.rss
          [] f = "memoryExternal" -> sn.endMem.external - sn.startMem.external
          [] f = "cpuPercentage" -> cpuPercentage(v, sn)
          [] OTHER -> cs[f]]

\* #metricWeights, in hundredths
metricWeights ==
    [cpuTimeMs |-> 35, cpuPercentage |-> 20, memoryRSS |-> 15,
     memoryHeapUsed |-> 10, memoryExternal |-> 5, sentBytes |-> 5,
     receivedBytes |-> 5, wallTimeMs |-> 5]

WeightOrder ==
    <<"cpuTimeMs", "cpuPercentage", "memoryRSS", "memoryHeapUsed",
      "memoryExternal", "sentBytes", "receivedBytes", "wallTimeMs">>

\* maxValues of #normalizeMetric
maxValues ==
    [cpuTimeMs |-> 10000, wallTimeMs |-> 1000,
     memoryHeapUsed |-> 500 * 1024 * 1024, memoryRSS |-> 1000 * 1024 * 1024,
     memoryExternal |-> 100 * 1024 * 1024, cpuPercentage |-> 100,
     sentBytes |-> 10 * 1024 * 1024, receivedBytes |-> 10 * 1024 * 1024,
     fileReadBytes |-> 20 * 1024 * 1024, fileWriteBytes |-> 20 * 1024 * 1024]

\* a normalisation by magnitude
normalizeMagnitude(metric, value) ==
    NumDiv(Num(Abs(value.num), value.den), Num(maxValues[metric], 1))

\* metrics[metric] as a Number: the record holds cpuTimeMs and cpuPercentage
\* as Numbers already, the other fields as integers
FieldValue(mt, metric) ==
    IF metric \in {"cpuTimeMs", "cpuPercentage"} THEN mt[metric] ELSE Num(mt[metric], 1)

\* a normalisation that clamps negative values to zero
normalizeClamped(metric, value) ==
    IF value.kind = "finite" /\ value.num < 0
    THEN Num(0, 1)
    ELSE NumDiv(value, Num(maxValues[metric], 1))

\* #normalizeMetric: value / (maxValues[metric] || 1)
normalizeMetric(metric, value) == NumDiv(value, Num(maxValues[metric], 1))

\* normalizedValue * weight
GasTerm(metric, value) ==
    NumMul(normalizeMetric(metric, value), Num(metricWeights[metric], 100))

\* value !== undefined && typeof value === 'number'
Weighs(mt, metric) ==
    /\ metric \in DOMAIN mt
    /\ FieldValue(mt, metric).kind # "bigint"

RECURSIVE GasSum(_, _)
GasSum(mt, k) ==
    IF k = 0 THEN Num(0, 1)
    ELSE NumAdd(GasSum(mt, k - 1),
                IF Weighs(mt, WeightOrder[k])
                THEN GasTerm(WeightOrder[k], FieldValue(mt, WeightOrder[k]))
                ELSE Num(0, 1))

\* an estimate that starts from a base fee of 1
estimateWithBaseFee(mt) == NumAdd(Num(1, 1), GasSum(mt, Len(WeightOrder)))

\* an estimate that also weighs the bytes of file I/O
estimateWithFileIO(mt) ==
    NumAdd(GasSum(mt, Len(WeightOrder)),
           NumMul(NumDiv(Num(mt.fileReadBytes + mt.fileWriteBytes, 1),
                         Num(maxValues["fileReadBytes"], 1)),
                  Num(5, 100)))

\* #estimateRealisticGas: metrics the record lacks contribute nothing
estimateRealisticGas(mt) == GasSum(mt, Len(WeightOrder))

\* two decimals by truncation
ToFixed2Truncated(n, d, unit) ==
    [negative |-> n < 0,
     hundredths |-> (Abs(n) \div d) * 100 + (((Abs(n) % d) * 100) \div d),
     unit |-> unit]

\* (x).toFixed(2) of x = n / d followed by a unit: the sign, and the magnitude
\* in hundredths rounded half up
ToFixed2(n, d, unit) ==
    [negative |-> n < 0,
     hundredths |-> (Abs(n) \div d) * 100 + (((Abs(n) % d) * 200 + d) \div (2 * d)),
     unit |-> unit]

\* #generateReport
generateReport(mt) ==
    [cpuTimeMs |-> mt.cpuTimeMs,
     wallTimeMs |-> mt.wallTimeMs,
     peakMemoryRSS |-> ToFixed2(mt.memoryRSS, MiB, "MB"),
     memoryHeapUsed |-> ToFixed2(mt.memoryHeapUsed, MiB, "MB"),
     memoryExternal |-> ToFixed2(mt.memoryExternal, MiB, "MB"),
     networkTransferred |-> ToFixed2(mt.sentBytes + mt.receivedBytes, 1024, "KB"),
     fileIO |-> ToFixed2(mt.fileReadBytes + mt.fileWriteBytes, 1024, "KB")]

\* keys attached whenever an include list is configured, whatever it holds
OutputKeysAnyInclude(opts) ==
    {"success", "data", "gas"}
        \cup (IF "include" \in DOMAIN opts THEN {"metric", "report"} ELSE {})

\* the keys of the Result: `include` is read from the configuration `opts`
OutputKeys(opts) ==
    {"success", "data", "gas"}
        \cup (IF Includes(opts, "metric") THEN {"metric"} ELSE {})
        \cup (IF Includes(opts, "report") THEN {"report"} ELSE {})

\* estimateGas, lines 76-89
Output(e, r, mt, opts) ==
    [k \in OutputKeys(opts) |->
        CASE k = "success" -> ~Truthy(e)
          [] k = "data" -> IF Truthy(e) THEN MessageOf(e) ELSE r
          [] k = "gas" -> estimateRealisticGas(mt)
          [] k = "metric" -> mt
          [] k = "report" -> generateReport(mt)]

\* ------------------------------------------------------------- counting
Occ(stack, m) == Cardinality({k \in DOMAIN stack : stack[k].meter = m})

\* Every wrapper of `stack` adds n to counter c of its own Meter. `owner` is
\* the invocation whose operation started the I/O.
CountVia(stack, c, n, owner) ==
    /\ counters' = [m \in Meters |->
                      [counters[m] EXCEPT ![c] = @ + n * Occ(stack, m)]]
    /\ window' = [j \in Inv |->
                    IF InWindow(j)
                    THEN [window[j] EXCEPT ![c] = @ + n * Occ(stack, meter[j])]
                    ELSE window[j]]
    /\ own' = [j \in Inv |->
                 IF j = owner /\ InWindow(j)
                 THEN [own[j] EXCEPT ![c] = @ + n]
                 ELSE own[j]]
    /\ late' = [j \in Inv |->
                  IF InWindow(j) /\ pc[owner] = "returned"
                  THEN [late[j] EXCEPT ![c] = @ + n * Occ(stack, meter[j])]
                  ELSE late[j]]

Log(i, s) == steps' = [steps EXCEPT ![i] = Append(@, s)]

\* ------------------------------------------------------------- actions
\* estimateGas(fn, ...args) / calculateMetrics(fn, ...args) is called
Call(i, m, a, as) ==
    /\ running = 0
    /\ pc[i] = "idle"
    /\ \A j \in Inv : j < i => pc[j] # "idle"    \* calls are numbered in order
    /\ i = 1 => m = 1                             \* Meters are interchangeable
    /\ workload # "overlapping" => \A j \in Inv : ~InFlight(j)
    /\ workload \in {"configured", "io"} => i = 1
    /\ a \in Apis(variant)
    /\ pc' = [pc EXCEPT ![i] = "reset"]
    /\ running' = i
    /\ meter' = [meter EXCEPT ![i] = m]
    /\ api' = [api EXCEPT ![i] = a]
    /\ args' = [args EXCEPT ![i] = as]
    /\ timeline' = Append(timeline, [ev |-> "call", inv |-> i])
    /\ atCall' = [atCall EXCEPT ![i] = points]
    /\ optionsAtCall' = [optionsAtCall EXCEPT ![i] = options[m]]
    /\ overlapped' = [j \in Inv |->
                        IF j = i THEN {k \in Inv : InFlight(k)}
                        ELSE IF InFlight(j) THEN overlapped[j] \cup {i}
                        ELSE overlapped[j]]
    /\ UNCHANGED <<workload, variant, points, counters, saved, error, result, metrics,
                   ret, ioCount, pending>>
    /\ UNCHANGED <<steps, opRuns, opArgs, atReturn, own, window, late,
                   outcome>>
    /\ UNCHANGED <<cfgVars, ioVars, sample, snap, optionsAtReturn>>

\* a reset that also zeroes the counter fields of the records already returned
\* for the same Meter, as if a record shared its storage with the counters
DoResetSharingRecords(i) ==
    /\ running = i
    /\ pc[i] = "reset"
    /\ counters' = [counters EXCEPT ![meter[i]] = ResetCounters(variant, @)]
    /\ ret' = [j \in Inv |->
                 IF /\ pc[j] = "returned"
                    /\ meter[j] = meter[i]
                    /\ ret[j].state = "resolved"
                    /\ "metric" \in DOMAIN ret[j].value
                 THEN [ret[j] EXCEPT !.value.metric =
                         [f \in DOMAIN @ |->
                             IF f \in CountersOf(variant) THEN 0 ELSE @[f]]]
                 ELSE ret[j]]
    /\ pc' = [pc EXCEPT ![i] = StepAfter("reset")]
    /\ Log(i, "reset")
    /\ UNCHANGED <<workload, variant, points, running, meter, api, args, saved, error,
                   result, metrics, ioCount, pending>>
    /\ UNCHANGED <<opRuns, opArgs, atCall, atReturn, overlapped, own, window, late,
                   outcome, timeline>>
    /\ UNCHANGED <<cfgVars, ioVars, sample, snap, optionsAtCall, optionsAtReturn>>

\* this.reset()
DoReset(i) ==
    /\ running = i
    /\ pc[i] = "reset"
    /\ counters' = [counters EXCEPT ![meter[i]] = ResetCounters(variant, @)]
    /\ pc' = [pc EXCEPT ![i] = StepAfter("reset")]
    /\ Log(i, "reset")
    /\ UNCHANGED <<workload, variant, points, running, meter, api, args, saved, error,
                   result, metrics, ret, ioCount, pending>>
    /\ UNCHANGED <<opRuns, opArgs, atCall, atReturn, overlapped, own, window, late,
                   outcome, timeline>>
    /\ UNCHANGED <<cfgVars, ioVars, sample, snap, optionsAtCall, optionsAtReturn>>

\* startCpu, startMem, startTime
SnapStart(i, t) ==
    /\ running = i
    /\ pc[i] = "snapStart"
    /\ snap' = [snap EXCEPT ![i] = [NoSnap EXCEPT !.startMem = MemBase,
                                                  !.startTime = t]]
    /\ pc' = [pc EXCEPT ![i] = StepAfter("snapStart")]
    /\ Log(i, "snapStart")
    /\ UNCHANGED <<workload, variant, points, counters, running, meter, api, args, saved,
                   error, result, metrics, ret, ioCount, pending>>
    /\ UNCHANGED <<opRuns, opArgs, atCall, atReturn, overlapped, own, window, late,
                   outcome, timeline>>
    /\ UNCHANGED <<cfgVars, ioVars, sample, optionsAtCall, optionsAtReturn>>

\* save the originals and install the counting wrappers
Install(i) ==
    /\ running = i
    /\ pc[i] = "install"
    /\ saved' = [saved EXCEPT ![i] = SavedOriginals(points)]
    /\ points' = InstalledPoints(variant, meter[i], points)
    /\ pc' = [pc EXCEPT ![i] = StepAfter("install")]
    /\ Log(i, "install")
    /\ UNCHANGED <<workload, variant, counters, running, meter, api, args, error, result,
                   metrics, ret, ioCount, pending>>
    /\ UNCHANGED <<opRuns, opArgs, atCall, atReturn, overlapped, own, window, late,
                   outcome, timeline>>
    /\ UNCHANGED <<cfgVars, ioVars, sample, snap, optionsAtCall, optionsAtReturn>>

\* fn(...args) is entered
OpStart(i) ==
    /\ running = i
    /\ pc[i] = "opStart"
    /\ opRuns' = [opRuns EXCEPT ![i] = @ + 1]
    /\ opArgs' = [opArgs EXCEPT ![i] = InvokeArgs(args[i])]
    /\ pc' = [pc EXCEPT ![i] = StepAfter("opStart")]
    /\ Log(i, "opStart")
    /\ UNCHANGED <<workload, variant, points, counters, running, meter, api, args, saved,
                   error, result, metrics, ret, ioCount, pending>>
    /\ UNCHANGED <<atCall, atReturn, overlapped, own, window, late,
                   outcome, timeline>>
    /\ UNCHANGED <<cfgVars, ioVars, sample, snap, optionsAtCall, optionsAtReturn>>

\* the operation may do I/O: in its synchronous part, or in a later task of its
\* own while the orchestrator awaits it
OpActive(i) ==
    \/ (pc[i] = "opSync" /\ running = i)
    \/ (pc[i] = "awaiting" /\ running = 0)

\* the operation calls fs.writeFile with n bytes: #trackFileWrite counts when
\* the call is made
OpWriteFile(i, n) ==
    /\ OpActive(i)
    /\ ioCount[i] < MaxIO
    /\ "writeFile" \in HookedPoints(variant)
    /\ ioCount' = [ioCount EXCEPT ![i] = @ + 1]
    /\ CountVia(points["writeFile"], "fileWriteBytes", n, i)
    /\ UNCHANGED <<workload, variant, points, running, pc, meter, api, args, saved, error,
                   result, metrics, ret, pending>>
    /\ UNCHANGED <<steps, opRuns, opArgs, atCall, atReturn, overlapped,
                   outcome, timeline>>
    /\ UNCHANGED <<cfgVars, ioVars, sample, snap, optionsAtCall, optionsAtReturn>>

\* the operation calls fs.readFile: the wrappers in place now will see the
\* callback
OpReadFile(i) ==
    /\ OpActive(i)
    /\ ioCount[i] < MaxIO
    /\ "readFile" \in HookedPoints(variant)
    /\ ioCount' = [ioCount EXCEPT ![i] = @ + 1]
    /\ pending' = pending \cup
          {[owner |-> i, serial |-> ioCount[i], kind |-> "read",
            stack |-> points["readFile"]]}
    /\ UNCHANGED <<workload, variant, points, counters, running, pc, meter, api, args,
                   saved, error, result, metrics, ret>>
    /\ UNCHANGED histVars
    /\ UNCHANGED <<cfgVars, ioVars, sample, snap, optionsAtCall, optionsAtReturn>>

\* the read completes with n bytes: #trackFileRead's callback counts them
ReadCallback(cb, n) ==
    /\ running = 0
    /\ cb \in pending
    /\ cb.kind = "read"
    /\ pending' = pending \ {cb}
    /\ CountVia(cb.stack, "fileReadBytes", n, cb.owner)
    /\ UNCHANGED <<workload, variant, points, running, pc, meter, api, args, saved, error,
                   result, metrics, ret, ioCount>>
    /\ UNCHANGED <<steps, opRuns, opArgs, atCall, atReturn, overlapped,
                   outcome, timeline>>
    /\ UNCHANGED <<cfgVars, ioVars, sample, snap, optionsAtCall, optionsAtReturn>>

\* the read fails: `if (!err && data)` counts nothing
ReadCallbackError(cb) ==
    /\ running = 0
    /\ cb \in pending
    /\ cb.kind = "read"
    /\ pending' = pending \ {cb}
    /\ UNCHANGED <<workload, variant, points, counters, running, pc, meter, api, args,
                   saved, error, result, metrics, ret, ioCount>>
    /\ UNCHANGED histVars
    /\ UNCHANGED <<cfgVars, ioVars, sample, snap, optionsAtCall, optionsAtReturn>>

\* the operation creates a request through the hook; the https generation
\* counts h bytes of headers at once
OpRequest(i, h) ==
    /\ OpActive(i)
    /\ ioCount[i] < MaxIO
    /\ ioCount' = [ioCount EXCEPT ![i] = @ + 1]
    /\ pending' = pending \cup
          {[owner |-> i, serial |-> ioCount[i], kind |-> "socket",
            stack |-> points["request"]]}
    /\ IF variant = "https"
       THEN CountVia(points["request"], "sentBytes", h, i)
       ELSE UNCHANGED <<counters, own, window, late,
                   outcome, timeline>>
    /\ UNCHANGED <<workload, variant, points, running, pc, meter, api, args, saved, error,
                   result, metrics, ret>>
    /\ UNCHANGED <<steps, opRuns, opArgs, atCall, atReturn, overlapped,
                   outcome, timeline>>
    /\ UNCHANGED <<cfgVars, ioVars, sample, snap, optionsAtCall, optionsAtReturn>>

\* the request's socket delivers n bytes: socket.on('data') counts them
SocketData(cb, n) ==
    /\ running = 0
    /\ cb \in pending
    /\ cb.kind = "socket"
    /\ pending' = pending \ {cb}
    /\ CountVia(cb.stack, "receivedBytes", n, cb.owner)
    /\ UNCHANGED <<workload, variant, points, running, pc, meter, api, args, saved, error,
                   result, metrics, ret, ioCount>>
    /\ UNCHANGED <<steps, opRuns, opArgs, atCall, atReturn, overlapped,
                   outcome, timeline>>
    /\ UNCHANGED <<cfgVars, ioVars, sample, snap, optionsAtCall, optionsAtReturn>>

\* The operation has failed with reason r: the catch clause takes it.
Fail(i, r) ==
    /\ pc' = [pc EXCEPT ![i] = OnOperationFailure(r).pc]
    /\ error' = [error EXCEPT ![i] = OnOperationFailure(r).error]
    /\ ret' = [ret EXCEPT ![i] =
                 [state |-> OnOperationFailure(r).state, value |-> r]]
    /\ atReturn' = [atReturn EXCEPT ![i] =
                      IF OnOperationFailure(r).pc = "returned"
                      THEN points ELSE @]
    /\ running' = IF OnOperationFailure(r).pc = "returned" THEN 0 ELSE i
    /\ outcome' = [outcome EXCEPT ![i] = "failed"]
    /\ Log(i, "opSettled")

\* the operation throws before its first await
OpThrowSync(i, r) ==
    /\ running = i
    /\ pc[i] = "opSync"
    /\ Fail(i, r)
    /\ UNCHANGED <<workload, variant, points, counters, meter, api, args, saved, result,
                   metrics, ioCount, pending>>
    /\ UNCHANGED <<opRuns, opArgs, atCall, overlapped, own, window, late,
                   timeline>>
    /\ UNCHANGED <<cfgVars, ioVars, sample, snap, optionsAtCall, optionsAtReturn>>

\* the operation returns a promise (or a plain value): `await` suspends
OpYield(i) ==
    /\ running = i
    /\ pc[i] = "opSync"
    /\ pc' = [pc EXCEPT ![i] = "awaiting"]
    /\ running' = 0
    /\ UNCHANGED <<workload, variant, points, counters, meter, api, args, saved, error,
                   result, metrics, ret, ioCount, pending>>
    /\ UNCHANGED histVars
    /\ UNCHANGED <<cfgVars, ioVars, sample, snap, optionsAtCall, optionsAtReturn>>

\* the awaited operation completes with value v
OpResolve(i, v) ==
    /\ running = 0
    /\ pc[i] = "awaiting"
    /\ result' = [result EXCEPT ![i] = v]
    /\ pc' = [pc EXCEPT ![i] = StepAfter("opSettled")]
    /\ running' = i
    /\ outcome' = [outcome EXCEPT ![i] = "completed"]
    /\ Log(i, "opSettled")
    /\ UNCHANGED <<workload, variant, points, counters, meter, api, args, saved, error,
                   metrics, ret, ioCount, pending>>
    /\ UNCHANGED <<opRuns, opArgs, atCall, atReturn, overlapped, own, window, late,
                   timeline>>
    /\ UNCHANGED <<cfgVars, ioVars, sample, snap, optionsAtCall, optionsAtReturn>>

\* the awaited operation rejects with reason r
OpReject(i, r) ==
    /\ running = 0
    /\ pc[i] = "awaiting"
    /\ Fail(i, r)
    /\ UNCHANGED <<workload, variant, points, counters, meter, api, args, saved, result,
                   metrics, ioCount, pending>>
    /\ UNCHANGED <<opRuns, opArgs, atCall, overlapped, own, window, late,
                   timeline>>
    /\ UNCHANGED <<cfgVars, ioVars, sample, snap, optionsAtCall, optionsAtReturn>>

\* the original request function throws inside the hook and the operation does
\* not handle it
OpRequestThrows(i) ==
    /\ OpActive(i)
    /\ ioCount[i] < MaxIO
    /\ ioCount' = [ioCount EXCEPT ![i] = @ + 1]
    /\ Fail(i, JsError("Network error"))
    /\ UNCHANGED <<workload, variant, points, counters, meter, api, args, saved, result,
                   metrics, pending>>
    /\ UNCHANGED <<opRuns, opArgs, atCall, overlapped, own, window, late,
                   timeline>>
    /\ UNCHANGED <<cfgVars, ioVars, sample, snap, optionsAtCall, optionsAtReturn>>

\* put the saved values back
Restore(i) ==
    /\ running = i
    /\ pc[i] = "restore"
    /\ points' = RestoredPoints(variant, saved[i], points)
    /\ pc' = [pc EXCEPT ![i] = StepAfter("restore")]
    /\ Log(i, "restore")
    /\ UNCHANGED <<workload, variant, counters, running, meter, api, args, saved, error,
                   result, metrics, ret, ioCount, pending>>
    /\ UNCHANGED <<opRuns, opArgs, atCall, atReturn, overlapped, own, window, late,
                   outcome, timeline>>
    /\ UNCHANGED <<cfgVars, ioVars, sample, snap, optionsAtCall, optionsAtReturn>>

\* endCpu, endMem, endTime
SnapEnd(i, u, mem, e) ==
    /\ running = i
    /\ pc[i] = "snapEnd"
    /\ snap' = [snap EXCEPT ![i] = [@ EXCEPT !.endCpu = [user |-> u],
                                             !.endMem = mem,
                                             !.endTime = snap[i].startTime + e]]
    /\ pc' = [pc EXCEPT ![i] = StepAfter("snapEnd")]
    /\ Log(i, "snapEnd")
    /\ UNCHANGED <<workload, variant, points, counters, running, meter, api, args, saved,
                   error, result, metrics, ret, ioCount, pending>>
    /\ UNCHANGED <<opRuns, opArgs, atCall, atReturn, overlapped, own, window, late,
                   outcome, timeline>>
    /\ UNCHANGED <<cfgVars, ioVars, sample, optionsAtCall, optionsAtReturn>>

\* const metrics = {...}; return { result, error, metrics }: the caller's
\* `await` resumes in a later task. In the legacy class building the record
\* can throw, and the rejection passes through calculateMetrics to its caller.
Record(i) ==
    /\ running = i
    /\ pc[i] = "record"
    /\ IF MetricsThrows(variant, snap[i])
       THEN /\ ret' = [ret EXCEPT ![i] =
                        [state |-> "rejected", value |-> DivisionByZero]]
            /\ pc' = [pc EXCEPT ![i] = "returned"]
            /\ atReturn' = [atReturn EXCEPT ![i] = points]
            /\ optionsAtReturn' = [optionsAtReturn EXCEPT ![i] = options[meter[i]]]
            /\ UNCHANGED <<metrics, steps>>
       ELSE /\ metrics' = [metrics EXCEPT ![i] =
                            MetricsRecord(variant, counters[meter[i]], snap[i])]
            /\ pc' = [pc EXCEPT ![i] = StepAfter("record")]
            /\ Log(i, "record")
            /\ UNCHANGED <<ret, atReturn, optionsAtReturn>>
    /\ running' = 0
    /\ timeline' = Append(timeline, [ev |-> "captured", inv |-> i])
    /\ UNCHANGED <<workload, variant, points, counters, meter, api, args, saved, error,
                   result, ioCount, pending>>
    /\ UNCHANGED <<opRuns, opArgs, atCall, overlapped, own, window, late,
                   outcome>>
    /\ UNCHANGED <<cfgVars, ioVars, sample, snap, optionsAtCall>>

\* estimateGas builds its output from the record and the configuration as it
\* is now, and returns; calculateMetrics returns the record
Assemble(i) ==
    /\ running = 0
    /\ pc[i] = "assemble"
    /\ ret' = [ret EXCEPT ![i] =
                 [state |-> "resolved",
                  value |-> IF api[i] = "estimateGas"
                            THEN Output(error[i], result[i], metrics[i],
                                        options[meter[i]])
                            ELSE metrics[i]]]
    /\ atReturn' = [atReturn EXCEPT ![i] = points]
    /\ optionsAtReturn' = [optionsAtReturn EXCEPT ![i] = options[meter[i]]]
    /\ pc' = [pc EXCEPT ![i] = "returned"]
    /\ UNCHANGED <<workload, variant, points, counters, running, meter, api, args, saved,
                   error, result, metrics, ioCount, pending>>
    /\ UNCHANGED <<steps, opRuns, opArgs, atCall, overlapped, own, window, late,
                   outcome, timeline>>
    /\ UNCHANGED <<cfgVars, ioVars, sample, snap, optionsAtCall>>

Next ==
    \/ \E i \in Inv, m \in Meters, a \in {"estimateGas", "calculateMetrics"},
          as \in ArgListsIn(workload) : Call(i, m, a, as)
    \/ \E i \in Inv : DoReset(i)
    \/ \E i \in Inv, t \in StartTimes : SnapStart(i, t)
    \/ \E i \in Inv : Install(i)
    \/ \E i \in Inv : OpStart(i)
    \/ \E i \in Inv, n \in Chunks : OpWriteFile(i, n)
    \/ \E i \in Inv : OpReadFile(i)
    \/ \E cb \in pending, n \in Chunks : ReadCallback(cb, n)
    \/ \E cb \in pending : ReadCallbackError(cb)
    \/ \E i \in Inv, h \in Chunks : OpRequest(i, h)
    \/ \E cb \in pending, n \in Chunks : SocketData(cb, n)
    \/ \E i \in Inv : OpRequestThrows(i)
    \/ \E i \in Inv, r \in ReasonsIn(workload) : OpThrowSync(i, r)
    \/ \E i \in Inv : OpYield(i)
    \/ \E i \in Inv, v \in ValuesIn(workload) : OpResolve(i, v)
    \/ \E i \in Inv, r \in ReasonsIn(workload) : OpReject(i, r)
    \/ \E i \in Inv : Restore(i)
    \/ \E i \in Inv, u \in CpuUserIn(workload), mem \in MemAfterIn(workload),
          e \in ElapsedIn(workload) : SnapEnd(i, u, mem, e)
    \/ \E i \in Inv : Record(i)
    \/ \E i \in Inv : Assemble(i)

\* ---------------------------------------------- configuration and reset
\* an update that replaces the configuration by the given one
ReplaceOptions(old, given) == given

\* { ...this.options, ...options }
MergeOptions(old, given) ==
    [f \in DOMAIN old \cup DOMAIN given |->
        IF f \in DOMAIN given THEN given[f] ELSE old[f]]

\* code other than the orchestrator can call the Meter's methods between tasks,
\* and the operation can in its synchronous part
CallerCanRun == running = 0 \/ (running \in Inv /\ pc[running] = "opSync")

\* setOptions(o) on Meter m; `return this`
SetOptions(m, o) ==
    /\ CallerCanRun
    /\ cfgCount < MaxCfg
    /\ options' = [options EXCEPT ![m] = MergeOptions(@, o)]
    /\ cfgCount' = cfgCount + 1
    /\ UNCHANGED <<progVars, histVars, envVars, ioVars, sample>>
    /\ cfgCall' = [op |-> "setOptions", meter |-> m, given |-> o, returned |-> m,
                   pcBefore |-> pc,
                   optionsBefore |-> options, optionsAfter |-> options',
                   countersBefore |-> counters, countersAfter |-> counters',
                   pointsBefore |-> points, pointsAfter |-> points']

\* reset() on Meter m, called from outside; it returns nothing
PublicReset(m) ==
    /\ CallerCanRun
    /\ cfgCount < MaxCfg
    /\ counters' = [counters EXCEPT ![m] = ResetCounters(variant, @)]
    /\ cfgCount' = cfgCount + 1
    /\ UNCHANGED <<workload, variant, points, running, pc, meter, api, args, saved, error,
                   result, metrics, ret, ioCount, pending>>
    /\ UNCHANGED <<histVars, envVars, ioVars, sample, options>>
    /\ cfgCall' = [op |-> "reset", meter |-> m, given |-> NoOptions, returned |-> 0,
                   pcBefore |-> pc,
                   optionsBefore |-> options, optionsAfter |-> options',
                   countersBefore |-> counters, countersAfter |-> counters',
                   pointsBefore |-> points, pointsAfter |-> points']

\* the lifecycle together with calls of setOptions and reset
CfgNext ==
    \/ Next
    \/ \E m \in Meters, o \in OptionArgs : SetOptions(m, o)
    \/ \E m \in Meters : PublicReset(m)

\* the lifecycle of operations that do no I/O
QuietNext ==
    \/ \E i \in Inv, m \in Meters, a \in {"estimateGas", "calculateMetrics"},
          as \in ArgListsIn(workload) : Call(i, m, a, as)
    \/ \E i \in Inv : DoReset(i)
    \/ \E i \in Inv, t \in StartTimes : SnapStart(i, t)
    \/ \E i \in Inv : Install(i)
    \/ \E i \in Inv : OpStart(i)
    \/ \E i \in Inv, r \in ReasonsIn(workload) : OpThrowSync(i, r)
    \/ \E i \in Inv : OpYield(i)
    \/ \E i \in Inv, v \in ValuesIn(workload) : OpResolve(i, v)
    \/ \E i \in Inv, r \in ReasonsIn(workload) : OpReject(i, r)
    \/ \E i \in Inv : Restore(i)
    \/ \E i \in Inv, u \in CpuUserIn(workload), mem \in MemAfterIn(workload),
          e \in ElapsedIn(workload) : SnapEnd(i, u, mem, e)
    \/ \E i \in Inv : Record(i)
    \/ \E i \in Inv : Assemble(i)

Init == InitWith("overlapping")
InitCfg == InitWith("configured")
InitTimed == InitWith("timed")
InitSeq == InitWith("sequential")

\* calls that may overlap
Spec == Init /\ [][Next]_vars

\* calls made one after the other, over every kind of outcome
SeqSpec == InitSeq /\ [][Next]_vars

\* ------------------------------------------------- the estimator by itself
AllFields == SnapshotFields \cup CounterNames

\* the record takes cpuTimeMs and cpuPercentage as Numbers
FieldOf(f, n) == IF f \in {"cpuTimeMs", "cpuPercentage"} THEN Num(n, 1) ELSE n

ZeroRecord == [f \in AllFields |-> FieldOf(f, 0)]

\* a window of work: 25 ms of CPU, memory grown, a few MiB moved
BusyRecord ==
    [cpuTimeMs |-> Num(25, 1), wallTimeMs |-> 5, memoryHeapUsed |-> 5 * MiB,
     memoryRSS |-> 5 * MiB, memoryExternal |-> MiB, cpuPercentage |-> Num(5, 1),
     sentBytes |-> MiB, receivedBytes |-> 2 * MiB, fileReadBytes |-> MiB,
     fileWriteBytes |-> 0]

\* a window over which memory was given back
ShrunkRecord ==
    [cpuTimeMs |-> Num(50, 1), wallTimeMs |-> 1000, memoryHeapUsed |-> -5 * MiB,
     memoryRSS |-> -10 * MiB, memoryExternal |-> -MiB, cpuPercentage |-> Num(100, 1),
     sentBytes |-> 0, receivedBytes |-> 0, fileReadBytes |-> 0,
     fileWriteBytes |-> 2 * MiB]

SampleBases == { ZeroRecord, BusyRecord, ShrunkRecord }

\* the values one field is given, in ascending order
SampleValues(f) ==
    CASE f = "cpuTimeMs" -> << -25, 0, 25, 50 >>
      [] f = "cpuPercentage" -> << -5, 0, 5, 100 >>
      [] f = "wallTimeMs" -> << -5, 0, 5, 1000 >>
      [] f \in {"memoryRSS", "memoryHeapUsed"} -> << -5 * MiB, 0, 5 * MiB, 10 * MiB >>
      [] OTHER -> << -MiB, 0, MiB, 2 * MiB >>

\* two records that differ in field f only, b holding the larger value
SamplePair(base, f, j, k) ==
    [stage |-> "drawn", field |-> f,
     a |-> [base EXCEPT ![f] = FieldOf(f, SampleValues(f)[j])],
     b |-> [base EXCEPT ![f] = FieldOf(f, SampleValues(f)[k])],
     gasA |-> Num(0, 1), gasB |-> Num(0, 1)]

Samples ==
    { SamplePair(base, f, jk[1], jk[2]) :
        base \in SampleBases, f \in DOMAIN metricWeights,
        jk \in {p \in (1..4) \X (1..4) : p[1] < p[2]} }

\* the bytes of file I/O a record is given
FileValues == { 0, MiB, 2 * MiB }

\* two records that differ in fileReadBytes and fileWriteBytes at most
FilePair(base, ra, wa, rb, wb) ==
    [stage |-> "drawn", field |-> "fileIO",
     a |-> [base EXCEPT !["fileReadBytes"] = ra, !["fileWriteBytes"] = wa],
     b |-> [base EXCEPT !["fileReadBytes"] = rb, !["fileWriteBytes"] = wb],
     gasA |-> Num(0, 1), gasB |-> Num(0, 1)]

FileSamples ==
    { FilePair(base, q[1], q[2], q[3], q[4]) :
        base \in SampleBases,
        q \in {x \in FileValues \X FileValues \X FileValues \X FileValues :
                  <<x[1], x[2]>> # <<x[3], x[4]>>} }

InitGas ==
    /\ Constructed("estimator")
    /\ sample \in Samples \cup FileSamples

\* #estimateRealisticGas applied to both records
Estimate ==
    /\ sample.stage = "drawn"
    /\ sample' = [sample EXCEPT !.stage = "estimated",
                                !.gasA = estimateRealisticGas(sample.a),
                                !.gasB = estimateRealisticGas(sample.b)]
    /\ UNCHANGED <<progVars, histVars, cfgVars, envVars, ioVars>>

GasNext == Estimate

\* the estimator applied to pairs of records
GasSpec == InitGas /\ [][GasNext]_vars

\* -------------------------------------------- the report generator by itself
\* the values the fields of a sampled record take, in bytes and milliseconds
ReportValues(f) ==
    CASE f = "memoryRSS" -> { 5 * MiB, -5 * MiB, 1 }
      [] f = "memoryHeapUsed" -> { 2 * MiB, 0 }
      [] f = "memoryExternal" -> { 512 * 1024, 5243, -1 }
      [] f = "sentBytes" -> { 1000, 0 }
      [] f = "receivedBytes" -> { 2000, 5 }
      [] f = "fileReadBytes" -> { 0, 1536 }
      [] f = "fileWriteBytes" -> { 0, 1029 }
      [] f = "cpuTimeMs" -> { Num(1, 8), Num(25, 1) }

ReportRecords ==
    { [memoryRSS |-> q[1], memoryHeapUsed |-> q[2], memoryExternal |-> q[3],
       sentBytes |-> q[4], receivedBytes |-> q[5], fileReadBytes |-> q[6],
       fileWriteBytes |-> q[7], wallTimeMs |-> 5, cpuTimeMs |-> c,
       cpuPercentage |-> Num(5, 1)] :
        q \in ReportValues("memoryRSS") \X ReportValues("memoryHeapUsed")
                \X ReportValues("memoryExternal") \X ReportValues("sentBytes")
                \X ReportValues("receivedBytes") \X ReportValues("fileReadBytes")
                \X ReportValues("fileWriteBytes"),
        c \in ReportValues("cpuTimeMs") }

\* the state of the Meter whose method is called
MeterState(cs, os) == [counters |-> cs[1], options |-> os[1]]

\* the report slot before #generateReport has run
NoReport == [f \in {} |-> 0]

InitReport ==
    /\ Constructed("report")
    /\ sample = NoSample

\* estimateGas has a record in hand (line 75)
DrawRecord(mt) ==
    /\ workload = "report"
    /\ sample.stage = "none"
    /\ sample' = [stage |-> "drawn", record |-> mt, recordAfter |-> mt,
                  report |-> NoReport,
                  meterBefore |-> MeterState(counters, options),
                  meterAfter |-> MeterState(counters, options)]
    /\ UNCHANGED <<progVars, histVars, cfgVars, envVars, ioVars>>

\* this.#generateReport(metrics): the fields are read, nothing is assigned
GenerateReport ==
    /\ workload = "report"
    /\ sample.stage = "drawn"
    /\ UNCHANGED <<progVars, histVars, cfgVars, envVars, ioVars>>
    /\ sample' = [sample EXCEPT !.stage = "reported",
                                !.report = generateReport(sample.record),
                                !.recordAfter = sample.record,
                                !.meterAfter = MeterState(counters', options')]

ReportNext ==
    \/ \E mt \in ReportRecords : DrawRecord(mt)
    \/ GenerateReport

\* the report generator applied to sampled records
ReportSpec == InitReport /\ [][ReportNext]_vars

\* ---------------------------------------------------------- fair scheduling
InitLive == InitWith("live")

\* A statement of the orchestrator that can run does run: the synchronous
\* statements of #captureMetrics follow one another, and the continuations
\* after `await` are jobs the event loop takes up. Nothing obliges a caller
\* to call or an operation to return, throw, resolve or reject.
OrchestratorRuns ==
    \A i \in Inv :
        /\ WF_vars(DoReset(i))
        /\ WF_vars(\E t \in StartTimes : SnapStart(i, t))
        /\ WF_vars(Install(i))
        /\ WF_vars(OpStart(i))
        /\ WF_vars(Restore(i))
        /\ WF_vars(\E u \in CpuUserIn(workload), mem \in MemAfterIn(workload),
                      e \in ElapsedIn(workload) : SnapEnd(i, u, mem, e))
        /\ WF_vars(Record(i))
        /\ WF_vars(Assemble(i))

\* calls one after the other under a fair event loop
LiveSpec == InitLive /\ [][QuietNext]_vars /\ OrchestratorRuns

\* ------------------------------------------- requests and file calls in detail
\* what the operation's I/O leaves alone
orchVars ==
    <<workload, variant, points, running, pc, meter, api, args, saved, error, result,
      metrics, ret, pending, steps, opRuns, opArgs, atCall, atReturn, overlapped, outcome,
      timeline>>

\* what a counting wrapper changes
countVars == <<counters, own, window, late>>

\* the byte lengths of the data read or written: an empty string or Buffer too
Sizes == 0..MaxChunk

\* The operation creates a request through the hooked constructor. The https
\* generation adds the size of the headers (h) and replaces req.write and
\* req.end at once; the http generation registers a 'socket' listener only.
RequestCreate(i, h) ==
    /\ OpActive(i)
    /\ ioCount[i] < MaxIO
    /\ requests[i].state = "none"
    /\ fsCalls[i] = <<>>           \* the operations explored use the network
                                  \* or the file system
    /\ ioCount' = [ioCount EXCEPT ![i] = @ + 1]
    /\ requests' = [requests EXCEPT ![i] =
                      [NoRequest EXCEPT !.state = "open",
                                        !.stack = points["request"]]]
    /\ IF variant = "https"
       THEN CountVia(points["request"], "sentBytes", h, i)
       ELSE UNCHANGED countVars
    /\ UNCHANGED <<orchVars, cfgVars, envVars, sample, fsCalls>>

\* The request is given its socket, in a later task than the one that created
\* it: the 'socket' listeners run. The http generation replaces req.write now.
SocketAssigned(i) ==
    /\ running = 0
    /\ requests[i].state # "none"
    /\ ~requests[i].socket
    /\ requests' = [requests EXCEPT ![i].socket = TRUE]
    /\ UNCHANGED <<orchVars, countVars, cfgVars, envVars, sample, fsCalls, ioCount>>

\* whether req.write is the counting replacement
WriteCounts(v, rq) == v = "https" \/ rq.socket

\* whether req.end is a counting replacement
EndCounts(v, rq) == v = "https"

\* the operation calls req.write(chunk) with a chunk of n bytes
RequestWrite(i, n) ==
    /\ OpActive(i)
    /\ requests[i].state = "open"
    /\ requests[i].writes < MaxWrites
    /\ requests' = [requests EXCEPT ![i].writes = @ + 1,
                                    ![i].written = @ + n,
                                    ![i].early =
                                        IF requests[i].socket THEN @ ELSE @ + n]
    /\ IF WriteCounts(variant, requests[i])
       THEN CountVia(requests[i].stack, "sentBytes", n, i)
       ELSE UNCHANGED countVars
    /\ UNCHANGED <<orchVars, cfgVars, envVars, sample, fsCalls, ioCount>>

\* the operation calls req.end(chunk), n = 0 standing for req.end()
RequestEnd(i, n) ==
    /\ OpActive(i)
    /\ requests[i].state = "open"
    /\ requests' = [requests EXCEPT ![i].state = "ended", ![i].ended = n]
    /\ IF EndCounts(variant, requests[i])
       THEN CountVia(requests[i].stack, "sentBytes", n, i)
       ELSE UNCHANGED countVars
    /\ UNCHANGED <<orchVars, cfgVars, envVars, sample, fsCalls, ioCount>>

\* The file entry points. An argument list is the sequence of what each
\* argument is: the path, the data, an options value, the operation's callback
\* ("cb"), or the callback the wrapper builds ("wrapCb").
FilePoints == {"readFile", "writeFile", "readFileSync", "writeFileSync"}

IsRead(p) == p \in {"readFile", "readFileSync"}
IsSync(p) == p \in {"readFileSync", "writeFileSync"}

\* the forms a caller may use: the options argument is optional
CallForms(p) ==
    CASE p = "readFile" -> { <<"path", "options", "cb">>, <<"path", "cb">> }
      [] p = "readFileSync" -> { <<"path", "options">>, <<"path">> }
      [] p = "writeFile" ->
            { <<"path", "data", "options", "cb">>, <<"path", "data", "cb">> }
      [] p = "writeFileSync" -> { <<"path", "data", "options">>, <<"path", "data">> }

\* the k-th parameter of a function called with `as`
Arg(as, k) == IF k \in DOMAIN as THEN as[k] ELSE "undefined"

IsFunction(a) == a \in {"cb", "wrapCb"}

\* #trackFileRead: (path, options, callback) => { original(path, options,
\* (err, data) => { ...; callback(err, data) }) }; the arrow function returns
\* nothing
TrackedRead(as) ==
    [origArgs |-> <<Arg(as, 1), Arg(as, 2), "wrapCb">>, callback |-> Arg(as, 3)]

\* #trackFileWrite: (path, data, options, callback) => { ...;
\* original(path, data, options, callback) }
TrackedWrite(as) ==
    [origArgs |-> <<Arg(as, 1), Arg(as, 2), Arg(as, 3), Arg(as, 4)>>,
     callback |-> Arg(as, 4)]

\* what the wrapper stored at point p does with the arguments
Tracked(v, p, as) ==
    IF Tracker(v, p) = "trackFileRead" THEN TrackedRead(as) ELSE TrackedWrite(as)

\* fs of the platform: the callback-based functions take `callback || options`
\* as their callback, the blocking ones take none
OriginalCallback(p, oa) ==
    CASE p = "readFile" -> IF IsFunction(Arg(oa, 3)) THEN Arg(oa, 3) ELSE Arg(oa, 2)
      [] p = "writeFile" -> IF IsFunction(Arg(oa, 4)) THEN Arg(oa, 4) ELSE Arg(oa, 3)
      [] OTHER -> "undefined"

\* the options a function of fs works with: the argument in the options
\* position unless it is a function or missing
OptionsOf(p, as) ==
    IF Arg(as, IF IsRead(p) THEN 2 ELSE 3) = "options" THEN "options" ELSE "default"

\* a read counts with a wrong test: the bytes of the file whatever the outcome
ReadCountedAnyOutcome(ok, n) == n

\* if (!err && data) this.fileReadBytes += data.length
ReadCounted(ok, n) == IF ok /\ n > 0 THEN n ELSE 0

\* if (data) this.fileWriteBytes += Buffer.byteLength(data)
WriteCounted(n) == IF n > 0 THEN n ELSE 0

\* The operation calls the function stored at file point p with the arguments
\* `as`; n is the length of the data it writes, or of the file it reads. The
\* wrapper runs at once: a write is counted now, the original is called, and a
\* blocking original returns before the wrapper does.
FsCall(i, p, as, n) ==
    /\ OpActive(i)
    /\ Len(fsCalls[i]) < MaxFs
    /\ requests[i].state = "none"
    /\ p \in FilePoints \cap HookedPoints(variant)
    /\ as \in CallForms(p)
    /\ fsCalls' = [fsCalls EXCEPT ![i] = Append(@,
          [point |-> p, args |-> as, n |-> n, stack |-> points[p],
           origArgs |-> Tracked(variant, p, as).origArgs,
           callback |-> Tracked(variant, p, as).callback,
           state |-> IF IsSync(p) THEN "done" ELSE "pending",
           ok |-> IsSync(p),
           origReturned |-> IF p = "readFileSync" THEN "data" ELSE "undefined",
           returned |-> "undefined",
           counted |-> IF Tracker(variant, p) = "trackFileWrite"
                       THEN WriteCounted(n) ELSE 0,
           cbCalls |-> 0, cbGot |-> "nothing", threw |-> FALSE,
           inWindow |-> InWindow(i)])]
    /\ IF Tracker(variant, p) = "trackFileWrite"
       THEN CountVia(points[p], "fileWriteBytes", WriteCounted(n), i)
       ELSE UNCHANGED countVars
    /\ UNCHANGED <<orchVars, cfgVars, envVars, sample, requests, ioCount>>

\* The platform finishes the k-th call, a callback-based one, and calls back
\* with (err) or (null, data). The wrapper's callback counts a read and calls
\* its `callback` parameter, which throws a TypeError when that is undefined.
FsComplete(i, k, ok) ==
    /\ running = 0
    /\ k \in DOMAIN fsCalls[i]
    /\ fsCalls[i][k].state = "pending"
    /\ LET c == fsCalls[i][k]
           called == OriginalCallback(c.point, c.origArgs)
           target == IF called = "wrapCb" THEN c.callback ELSE called
           added == IF called = "wrapCb" THEN ReadCounted(ok, c.n) ELSE 0
       IN  /\ fsCalls' = [fsCalls EXCEPT ![i][k] =
                  [c EXCEPT !.state = "done",
                            !.ok = ok,
                            !.counted = @ + added,
                            !.cbCalls = IF target = "cb" THEN @ + 1 ELSE @,
                            !.cbGot = IF target = "cb" THEN "original" ELSE @,
                            !.threw = ~IsFunction(target),
                            !.inWindow = InWindow(i)]]
           /\ IF called = "wrapCb"
              THEN CountVia(c.stack, "fileReadBytes", added, i)
              ELSE UNCHANGED countVars
    /\ UNCHANGED <<orchVars, cfgVars, envVars, sample, requests, ioCount>>

InitIo == InitWith("io")

\* the lifecycle with the operation's requests and file calls
IoNext ==
    \/ QuietNext
    \/ \E i \in Inv, h \in Chunks : RequestCreate(i, h)
    \/ \E i \in Inv : SocketAssigned(i)
    \/ \E i \in Inv, n \in Chunks : RequestWrite(i, n)
    \/ \E i \in Inv, n \in Sizes : RequestEnd(i, n)
    \/ \E i \in Inv, p \in FilePoints, n \in Sizes :
          \E as \in CallForms(p) : FsCall(i, p, as, n)
    \/ \E i \in Inv, k \in 1..MaxFs, ok \in BOOLEAN : FsComplete(i, k, ok)

\* one call whose operation writes to a request and calls the file entry points
IoSpec == InitIo /\ [][IoNext]_vars

\* one Meter's configuration changed and its counters zeroed around the calls
CfgSpec == InitCfg /\ [][CfgNext]_vars

\* operations without I/O, over the readings of the clocks and of memory
TimedSpec == InitTimed /\ [][QuietNext]_vars

\* ------------------------------------------------- Results the caller keeps
\* Meters constructed with include: ["metric", "report"]
InitKept == InitWith("kept")

\* the arguments setOptions is called with between the calls
KeptOptionArgs == { [include |-> <<"report">>], [label |-> "x"] }

\* the caller holds a Result of Meter m and no call is in flight
HoldsResultOf(m) ==
    /\ \A j \in Inv : ~InFlight(j)
    /\ \E j \in Inv : pc[j] = "returned" /\ meter[j] = m

\* the lifecycle with its I/O; between the calls, setOptions and reset are
\* called on a Meter whose Result the caller holds
KeptNext ==
    \/ Next
    \/ \E m \in Meters, o \in KeptOptionArgs : HoldsResultOf(m) /\ SetOptions(m, o)
    \/ \E m \in Meters : HoldsResultOf(m) /\ PublicReset(m)

\* calls one after the other, the caller keeping every Result
KeptSpec == InitKept /\ [][KeptNext]_vars

\* ===================================================== checked properties
Lifecycle ==
    <<"reset", "snapStart", "install", "opStart", "opSettled", "restore",
      "snapEnd", "record">>

IsPrefix(a, b) == Len(a) <= Len(b) /\ SubSeq(b, 1, Len(a)) = a

Returned(i) == pc[i] = "returned"

\* C1: a call that no other call overlapped leaves, when it returns, every
\* integration point it replaced holding the value it held immediately before
\* the call, whether the operation returned, threw or rejected.
C1_HooksRestored ==
    \A i \in Inv :
        (Returned(i) /\ overlapped[i] = {}) =>
            \A p \in HookedPoints(variant) : atReturn[i][p] = atCall[i][p]

\* a lone https-generation call whose operation failed has returned
C1_Witness ==
    \E i \in Inv :
        /\ Returned(i)
        /\ overlapped[i] = {}
        /\ variant = "https"
        /\ outcome[i] = "failed"
        /\ atReturn[i]["writeFileSync"] = Original

\* C2: the steps of one invocation are always a prefix of reset, start
\* snapshot, install, operation start, operation settled, restore, end
\* snapshot, record; and once the end snapshot is taken the points hold the
\* values the invocation saved, not its wrappers.
C2_StepOrder ==
    \A i \in Inv :
        /\ IsPrefix(steps[i], Lifecycle)
        /\ opRuns[i] > 0 => Len(steps[i]) >= 3
        /\ pc[i] = "record" =>
              \A p \in HookedPoints(variant) : points[p] = saved[i][p]

\* an invocation whose operation failed has run all eight steps
C2_Witness ==
    \E i \in Inv :
        /\ steps[i] = Lifecycle
        /\ outcome[i] = "failed"

\* C3: estimateGas never rejects; whatever the operation did, it resolves to a
\* Result with the keys success, data and gas, gas being the estimate of the
\* record of what was counted up to the failure.
C3_AlwaysResult ==
    \A i \in Inv :
        api[i] = "estimateGas" =>
            /\ ret[i].state # "rejected"
            /\ Returned(i) =>
                  /\ ret[i].state = "resolved"
                  /\ {"success", "data", "gas"} \subseteq DOMAIN ret[i].value
                  /\ ret[i].value.gas = estimateRealisticGas(metrics[i])
                  /\ \A c \in CountersOf(variant) : metrics[i][c] = window[i][c]

\* a failed operation whose partial execution had sent bytes: the Result
\* carries a positive gas
C3_Witness ==
    \E i \in Inv :
        /\ Returned(i)
        /\ api[i] = "estimateGas"
        /\ outcome[i] = "failed"
        /\ ret[i].state = "resolved"
        /\ ret[i].value.gas.num > 0

\* C4: the Result is tagged by the outcome: a failed operation gives success
\* false and the failure message as data, whatever was thrown; a completed one
\* gives success true and the returned value as data.
C4_TaggedByOutcome ==
    \A i \in Inv :
        (Returned(i) /\ api[i] = "estimateGas" /\ ret[i].state = "resolved") =>
            /\ outcome[i] = "failed" =>
                  /\ ret[i].value.success = FALSE
                  /\ ret[i].value.data.type = "string"
                  /\ error[i].type = "Error" =>
                        ret[i].value.data = JsString(error[i].val)
            /\ outcome[i] = "completed" =>
                  /\ ret[i].value.success = TRUE
                  /\ ret[i].value.data = result[i]

SameMeterOverlap(i) == \E j \in overlapped[i] : meter[j] = meter[i]

\* C5: calls that overlap on different Meters are safe: each record counts
\* only bytes of its own operation, and once all calls have returned every
\* integration point holds its original value.
C5_SeparateMetersSafe ==
    /\ \A i \in Inv :
          (Returned(i) /\ overlapped[i] # {} /\ ~SameMeterOverlap(i)) =>
              \A c \in CountersOf(variant) : metrics[i][c] <= own[i][c]
    /\ ( /\ \A i \in Inv : ~InFlight(i)
         /\ \A i, j \in Inv : (i # j /\ Returned(i) /\ Returned(j)) =>
                                  meter[i] # meter[j] )
       => \A p \in Points : points[p] = Original

When(e, i) == CHOOSE k \in DOMAIN timeline : timeline[k] = [ev |-> e, inv |-> i]
Happened(e, i) == \E k \in DOMAIN timeline : timeline[k] = [ev |-> e, inv |-> i]

\* b was called while a's capture was under way
CalledDuring(b, a) ==
    /\ Happened("call", a)
    /\ Happened("call", b)
    /\ When("call", a) < When("call", b)
    /\ Happened("captured", a) => When("call", b) < When("captured", a)

FinishedBefore(a, b) ==
    /\ Happened("captured", a)
    /\ Happened("captured", b)
    /\ When("captured", a) < When("captured", b)

\* two calls on one Meter overlapped, the first finished first, both have
\* returned and no other call was made
ClobberCase(a, b) ==
    /\ meter[a] = meter[b]
    /\ CalledDuring(b, a)
    /\ FinishedBefore(a, b)
    /\ Returned(a)
    /\ Returned(b)
    /\ \A k \in Inv \ {a, b} : pc[k] = "idle"

\* C6: when two calls on one Meter overlap and the first finishes before the
\* second, then after both have returned every hooked integration point is
\* still the first call's counting wrapper, not the original.
C6_Clobbered ==
    \A a, b \in Inv :
        ClobberCase(a, b) =>
            \A p \in HookedPoints(variant) :
                /\ points[p] # Original
                /\ points[p] = Wrap(meter[a], Tracker(variant, p), Original)

\* such a pair of calls has returned
C6_Witness == \E a, b \in Inv : ClobberCase(a, b)

\* C7: for calls that overlap on one Meter, each record's counters equal the
\* bytes of that call's own operation.
C7_CountersNotShared ==
    \A i \in Inv :
        (Returned(i) /\ SameMeterOverlap(i)) =>
            \A c \in CountersOf(variant) : metrics[i][c] = own[i][c]

\* C8: the record of a call that no call on the same Meter overlapped holds,
\* for each counter, the sum of the bytes of the hook events that fired on its
\* Meter between its reset and the building of the record.
C8_WindowSums ==
    \A i \in Inv :
        (ret[i].state = "resolved" /\ ~SameMeterOverlap(i)) =>
            \A c \in CountersOf(variant) : metrics[i][c] = window[i][c]

\* the second of two sequential calls on one Meter returned zero for a counter
\* the first call had left positive
C8_Witness ==
    \E i, j \in Inv :
        /\ i < j
        /\ meter[i] = meter[j]
        /\ overlapped[j] = {}
        /\ Returned(i)
        /\ Returned(j)
        /\ \E c \in CountersOf(variant) : metrics[i][c] > 0 /\ metrics[j][c] = 0

\* C9: bytes of I/O started by a call that has already returned are not in the
\* record of a later call on the same Meter.
C9_NoLateAttribution ==
    \A i \in Inv :
        (ret[i].state = "resolved" /\ ~SameMeterOverlap(i)) =>
            \A c \in CountersOf(variant) :
                metrics[i][c] = window[i][c] - late[i][c]

\* C10: the operation is called exactly once per invocation, with the
\* caller's arguments, also when it fails.
C10_RunsOnce ==
    \A i \in Inv :
        /\ opRuns[i] <= 1
        /\ Len(steps[i]) >= 4 => (opRuns[i] = 1 /\ opArgs[i] = args[i])
        /\ Returned(i) => opRuns[i] = 1

\* an invocation given an argument has failed and returned
C10_Witness ==
    \E i \in Inv :
        /\ Returned(i)
        /\ outcome[i] = "failed"
        /\ opRuns[i] = 1
        /\ opArgs[i] = <<JsString("a")>>

\* the configuration of the call's Meter was the same when the entry point
\* returned as when it was called
SteadyOptions(i) == optionsAtCall[i] = optionsAtReturn[i]

HasFlag(opts, flag) ==
    /\ "include" \in DOMAIN opts
    /\ flag \in {opts.include[k] : k \in 1..Len(opts.include)}

ResultOf(i) == ret[i].value

EstimateReturned(i) ==
    /\ Returned(i)
    /\ api[i] = "estimateGas"
    /\ ret[i].state = "resolved"

\* C11: under a configuration that stays the same through the call, the
\* Result of estimateGas has the key metric exactly when "metric" is in the
\* include list and the key report exactly when "report" is, for completed
\* and failed operations alike; with no include list or an empty one it has
\* neither, other values in the list add no key, and no configuration makes
\* estimateGas reject.
C11_IncludeKeys ==
    \A i \in Inv :
        /\ api[i] = "estimateGas" => ret[i].state # "rejected"
        /\ (EstimateReturned(i) /\ SteadyOptions(i)) =>
              /\ ("metric" \in DOMAIN ResultOf(i)) <=> HasFlag(optionsAtCall[i], "metric")
              /\ ("report" \in DOMAIN ResultOf(i)) <=> HasFlag(optionsAtCall[i], "report")
              /\ DOMAIN ResultOf(i) \subseteq {"success", "data", "gas", "metric", "report"}
              /\ "metric" \in DOMAIN ResultOf(i) => ResultOf(i).metric = metrics[i]

\* a failed operation under include ["metric", "verbose"]: the Result has the
\* metric key and no other added key
C11_Witness ==
    \E i \in Inv :
        /\ EstimateReturned(i)
        /\ SteadyOptions(i)
        /\ outcome[i] = "failed"
        /\ "include" \in DOMAIN optionsAtCall[i]
        /\ optionsAtCall[i].include = <<"metric", "verbose">>
        /\ DOMAIN ResultOf(i) = {"success", "data", "gas", "metric"}

LastWas(op) == cfgCall.op = op

AfterEmptyUpdate(i) ==
    /\ cfgCount = 1
    /\ LastWas("setOptions")
    /\ cfgCall.given = NoOptions
    /\ cfgCall.meter = meter[i]
    /\ cfgCall.optionsBefore[meter[i]] = [include |-> <<"metric", "report">>]
    /\ cfgCall.pcBefore[i] = "idle"

\* C13: estimateGas called after setOptions({}) on a Meter constructed with
\* include ["metric", "report"] returns, for an operation that completed, a
\* Result with success true and gas and with neither metric nor report.
C13_MinimalAfterEmptyUpdate ==
    \A i \in Inv :
        (EstimateReturned(i) /\ AfterEmptyUpdate(i) /\ outcome[i] = "completed") =>
            /\ ResultOf(i).success = TRUE
            /\ "gas" \in DOMAIN ResultOf(i)
            /\ "metric" \notin DOMAIN ResultOf(i)
            /\ "report" \notin DOMAIN ResultOf(i)

\* C14: the metric and report keys of a Result follow the configuration that
\* was in force when estimateGas was called, whatever setOptions calls were
\* made while the operation was in flight.
C14_ConfigReadAtCall ==
    \A i \in Inv :
        EstimateReturned(i) =>
            /\ ("metric" \in DOMAIN ResultOf(i)) <=> HasFlag(optionsAtCall[i], "metric")
            /\ ("report" \in DOMAIN ResultOf(i)) <=> HasFlag(optionsAtCall[i], "report")

\* C15: reset() on a Meter leaves each of its counters at 0 whatever it held,
\* resetting the result again changes nothing, and the call changes neither
\* any configuration, nor any integration point, nor another Meter's counters.
C15_ResetZeroes ==
    LastWas("reset") =>
        LET m == cfgCall.meter
        IN  /\ \A c \in CountersOf(variant) : cfgCall.countersAfter[m][c] = 0
            /\ ResetCounters(variant, cfgCall.countersAfter[m]) = cfgCall.countersAfter[m]
            /\ cfgCall.optionsAfter = cfgCall.optionsBefore
            /\ cfgCall.pointsAfter = cfgCall.pointsBefore
            /\ \A o \in Meters \ {m} :
                  cfgCall.countersAfter[o] = cfgCall.countersBefore[o]

\* reset() was called on a Meter that had counted written bytes, while its
\* hooks were installed and an include list was configured
C15_Witness ==
    /\ LastWas("reset")
    /\ cfgCall.countersBefore[cfgCall.meter]["fileWriteBytes"] > 0
    /\ cfgCall.pointsBefore["writeFile"] # Original
    /\ "include" \in DOMAIN cfgCall.optionsBefore[cfgCall.meter]

\* the record of call i has been built
Recorded(i) == pc[i] \in {"assemble", "returned"} /\ ret[i].state # "rejected"

\* the number a Number or a BigInt stands for
Quantity(x) == IF x.kind = "bigint" THEN Num(x.num, 1) ELSE x

\* CPU time consumed in the window of call i, in nanoseconds
CpuNs(i) == snap[i].endCpu.user * 1000

\* C16: cpuPercentage of the record is 100 times the CPU time of the window
\* over its wall time, both in nanoseconds, whenever the wall time is not
\* zero; a window whose CPU time equals its wall time has cpuPercentage 100.
C16_CpuPercentage ==
    \A i \in Inv :
        (Recorded(i) /\ ElapsedNs(snap[i]) > 0) =>
            Quantity(metrics[i].cpuPercentage) =
                NumMul(Num(100, 1), NumDiv(Num(CpuNs(i), 1), Num(ElapsedNs(snap[i]), 1)))

\* C17: a record built from a window of zero wall time has cpuPercentage 0,
\* and in every record cpuTimeMs and cpuPercentage are finite numbers (the
\* other fields are integers).
C17_FiniteFields ==
    \A i \in Inv :
        Recorded(i) =>
            /\ IsFinite(metrics[i].cpuTimeMs)
            /\ IsFinite(Quantity(metrics[i].cpuPercentage))
            /\ ElapsedNs(snap[i]) = 0 =>
                  Quantity(metrics[i].cpuPercentage) = Num(0, 1)

\* C18: calculateMetrics never rejects, whatever the operation did and
\* whatever the snapshots read; it resolves to a record holding every metric
\* field, and the integration points then hold the values they held before
\* the call.
C18_CalculateMetricsTotal ==
    \A i \in Inv :
        api[i] = "calculateMetrics" =>
            /\ ret[i].state # "rejected"
            /\ Returned(i) =>
                  /\ ret[i].state = "resolved"
                  /\ DOMAIN ret[i].value = MetricFields(variant)
                  /\ \A p \in HookedPoints(variant) : atReturn[i][p] = atCall[i][p]

Estimated == sample.stage = "estimated"

IsZeroRecord(mt) == \A f \in DOMAIN mt : FieldValue(mt, f) = Num(0, 1)

\* C19: the gas estimate of a record whose fields are all zero is 0.
C19_ZeroGas ==
    Estimated =>
        /\ IsZeroRecord(sample.a) => sample.gasA = Num(0, 1)
        /\ IsZeroRecord(sample.b) => sample.gasB = Num(0, 1)

\* the all-zero record has been estimated
C19_Witness ==
    /\ Estimated
    /\ sample.a = ZeroRecord
    /\ sample.gasA = Num(0, 1)

\* a and b agree on every field but sample.field, where b is strictly larger
DifferInOne ==
    /\ DOMAIN sample.a = DOMAIN sample.b
    /\ \A f \in DOMAIN sample.a \ {sample.field} : sample.a[f] = sample.b[f]
    /\ sample.field \in DOMAIN metricWeights
    /\ FieldValue(sample.a, sample.field) # FieldValue(sample.b, sample.field)
    /\ NumGeq(FieldValue(sample.b, sample.field), FieldValue(sample.a, sample.field))

\* C20: of two records with finite fields that differ in one weighted field
\* only, the one with the larger value has an estimate at least as large,
\* for negative values as for positive ones.
C20_Monotone ==
    (Estimated /\ DifferInOne) => NumGeq(sample.gasB, sample.gasA)

\* a pair whose smaller value is negative has been estimated, and the
\* estimates differ
C20_Witness ==
    /\ Estimated
    /\ DifferInOne
    /\ FieldValue(sample.a, sample.field).num < 0
    /\ sample.gasA # sample.gasB
    /\ sample.gasA.num < 0

\* the Result of call i, once estimateGas has returned it
HasResult(i) ==
    /\ Returned(i)
    /\ api[i] = "estimateGas"
    /\ ret[i].state = "resolved"

\* C21: the gas value of every Result returned by estimateGas lies between 0
\* and 1 inclusive.
C21_GasInUnitRange ==
    \A i \in Inv :
        HasResult(i) =>
            /\ NumGeq(ret[i].value.gas, Num(0, 1))
            /\ NumGeq(Num(1, 1), ret[i].value.gas)

\* g > 0
GasPositive(g) == g.kind # "NaN" /\ g.num > 0

\* C22: a successful invocation whose measured wall time is at least 1 ms has
\* gas > 0, whatever the other deltas measured over its window are.
C22_PositiveWhenTimePassed ==
    \A i \in Inv :
        (HasResult(i) /\ ret[i].value.success /\ metrics[i].wallTimeMs >= 1) =>
            GasPositive(ret[i].value.gas)

MemoryFields == {"memoryRSS", "memoryHeapUsed", "memoryExternal"}

\* weight x (value / ceiling) of field f of record mt
Contribution(mt, f) ==
    NumMul(Num(metricWeights[f], 100), Num(mt[f], maxValues[f]))

\* field f of mt is a negative memory delta and every other field is zero
OnlyNegative(mt, f) ==
    /\ mt[f] < 0
    /\ \A g \in DOMAIN mt \ {f} : FieldValue(mt, g) = Num(0, 1)

\* the estimate `gas` of record mt takes negative memory deltas unclamped
Unclamped(mt, gas) ==
    \A f \in MemoryFields :
        /\ mt[f] < 0 => Contribution(mt, f).num < 0
        /\ OnlyNegative(mt, f) => (gas = Contribution(mt, f) /\ gas.num < 0)

FileFields == {"fileReadBytes", "fileWriteBytes"}

\* a and b agree on every field other than fileReadBytes and fileWriteBytes
DifferInFileIO ==
    /\ DOMAIN sample.a = DOMAIN sample.b
    /\ \A f \in DOMAIN sample.a \ FileFields : sample.a[f] = sample.b[f]
    /\ sample.a # sample.b

Reported == sample.stage = "reported"

\* r is n / d to two decimals (the hundredths nearest to the magnitude, the
\* upper one of two equally near) followed by `unit`
TwoDecimals(r, n, d, unit) ==
    LET whole == Abs(n) \div d
        rest == Abs(n) % d
        k == r.hundredths - 100 * whole
    IN  /\ r.unit = unit
        /\ r.negative = (n < 0)
        /\ k \in 0..100
        /\ 200 * rest >= (2 * k - 1) * d
        /\ 200 * rest < (2 * k + 1) * d

Rendered(h, unit) == [negative |-> FALSE, hundredths |-> h, unit |-> unit]

\* C24: the report passes cpuTimeMs and wallTimeMs through unchanged, renders
\* memoryRSS (as peakMemoryRSS), memoryHeapUsed and memoryExternal as
\* value / 1,048,576 to two decimals followed by " MB", networkTransferred as
\* (sentBytes + receivedBytes) / 1024 and fileIO as
\* (fileReadBytes + fileWriteBytes) / 1024 to two decimals followed by " KB":
\* 5 MiB gives "5.00 MB", 512 KiB "0.50 MB", 1000 + 2000 bytes "2.93 KB".
\* Generating it changes neither the record nor the Meter's state.
C24_ReportFormat ==
    Reported =>
        LET mt == sample.record
            r == sample.report
        IN  /\ r.cpuTimeMs = mt.cpuTimeMs
            /\ r.wallTimeMs = mt.wallTimeMs
            /\ TwoDecimals(r.peakMemoryRSS, mt.memoryRSS, 1048576, "MB")
            /\ TwoDecimals(r.memoryHeapUsed, mt.memoryHeapUsed, 1048576, "MB")
            /\ TwoDecimals(r.memoryExternal, mt.memoryExternal, 1048576, "MB")
            /\ TwoDecimals(r.networkTransferred,
                           mt.sentBytes + mt.receivedBytes, 1024, "KB")
            /\ TwoDecimals(r.fileIO,
                           mt.fileReadBytes + mt.fileWriteBytes, 1024, "KB")
            /\ mt.memoryRSS = 5 * 1024 * 1024 =>
                  r.peakMemoryRSS = Rendered(500, "MB")
            /\ mt.memoryHeapUsed = 2 * 1024 * 1024 =>
                  r.memoryHeapUsed = Rendered(200, "MB")
            /\ mt.memoryExternal = 512 * 1024 =>
                  r.memoryExternal = Rendered(50, "MB")
            /\ mt.sentBytes + mt.receivedBytes = 3000 =>
                  r.networkTransferred = Rendered(293, "KB")
            /\ DOMAIN r = {"cpuTimeMs", "wallTimeMs", "peakMemoryRSS", "memoryHeapUsed",
                           "memoryExternal", "networkTransferred", "fileIO"}
            /\ sample.recordAfter = mt
            /\ sample.meterAfter = sample.meterBefore

\* the record of the worked example has been reported
C24_Witness ==
    /\ Reported
    /\ sample.record.memoryRSS = 5 * 1024 * 1024
    /\ sample.record.memoryExternal = 512 * 1024
    /\ sample.record.sentBytes = 1000
    /\ sample.record.receivedBytes = 2000
    /\ sample.report.peakMemoryRSS = Rendered(500, "MB")
    /\ sample.report.networkTransferred = Rendered(293, "KB")

\* the operation of call i has been entered and has not settled
Hanging(i) == pc[i] \in {"opSync", "awaiting"}

\* every point the class hooks holds the counting wrapper of call i's Meter
WrappersInstalled(i) ==
    \A p \in HookedPoints(variant) :
        points[p] = Wrap(meter[i], Tracker(variant, p), Original)

\* call i has returned a Result and left no hook behind
ReturnedClean(i) ==
    /\ HasResult(i)
    /\ \A p \in Points : atReturn[i][p] = Original

\* C25: estimateGas returns if and only if the operation settles. Under fair
\* scheduling an operation that completes or fails leads to the invocation
\* returning a Result with every hook removed; while the operation has not
\* settled the invocation has not returned and the counting wrappers are
\* installed on the integration points.
C25_ReturnsIffSettles ==
    /\ \A i \in Inv : (outcome[i] # "none") ~> ReturnedClean(i)
    /\ [](\A i \in Inv : Returned(i) => outcome[i] # "none")
    /\ [](\A i \in Inv :
            Hanging(i) => (ret[i].state = "none" /\ WrappersInstalled(i)))

\* a call of the https generation whose operation rejected has returned a
\* Result, the points restored
C25_Witness ==
    \E i \in Inv :
        /\ variant = "https"
        /\ ReturnedClean(i)
        /\ outcome[i] = "failed"
        /\ "awaiting" \in {steps[i][k] : k \in DOMAIN steps[i]} \/ opRuns[i] = 1
        /\ \A p \in Points : points[p] = Original

\* C26: every body chunk the operation writes during the window to a request
\* created through the hooked constructor adds its byte length to sentBytes,
\* whether it is written before or after the request's socket is assigned: an
\* operation that creates a request and at once writes a non-empty body has
\* sentBytes > 0 in its record.
C26_WritesCounted ==
    \A i \in Inv :
        (Recorded(i) /\ requests[i].state # "none") =>
            /\ metrics[i].sentBytes >= requests[i].written
            /\ requests[i].written > 0 => metrics[i].sentBytes > 0

\* the file calls made by the operation of call i
FsCallsOf(i) == { fsCalls[i][k] : k \in DOMAIN fsCalls[i] }

\* the wrapper passed call c on unchanged and the operation's callback has
\* been called as the original calls it
Transparent(c) ==
    /\ Arg(c.origArgs, 1) = "path"
    /\ ~IsRead(c.point) => Arg(c.origArgs, 2) = "data"
    /\ OptionsOf(c.point, c.origArgs) = OptionsOf(c.point, c.args)
    /\ c.cbCalls <= 1
    /\ ~c.threw
    /\ c.state = "done" => (c.cbCalls = 1 /\ c.cbGot = "original")

\* C27: the file hooks are transparent: for every call form fs.readFile and
\* fs.writeFile accept, with the options argument given or omitted, the
\* wrapper calls the original with the same path, data and options, and the
\* operation's own callback is called exactly once with the original's
\* (err, data).
C27_FileHooksTransparent ==
    \A i \in Inv : \A c \in FsCallsOf(i) :
        c.point \in {"readFile", "writeFile"} => Transparent(c)

\* C28: in the generation that hooks the blocking entry points, readFileSync
\* called by the operation in the window returns what the original returns and
\* adds the length of that data to fileReadBytes; writeFileSync performs the
\* original write and adds the length of the data to fileWriteBytes.
C28_BlockingHooks ==
    \A i \in Inv : \A c \in FsCallsOf(i) :
        /\ c.point = "readFileSync" =>
              (c.returned = c.origReturned /\ c.counted = c.n)
        /\ c.point = "writeFileSync" =>
              (Arg(c.origArgs, 1) = "path" /\ Arg(c.origArgs, 2) = "data"
                 /\ c.counted = c.n)

\* the data delivered by the successful callback reads among `calls`, from the
\* k-th call on
RECURSIVE ReadDelivered(_, _)
ReadDelivered(calls, k) ==
    IF k > Len(calls) THEN 0
    ELSE (IF /\ calls[k].point = "readFile"
             /\ calls[k].state = "done"
             /\ calls[k].ok
             /\ calls[k].inWindow
          THEN calls[k].n ELSE 0) + ReadDelivered(calls, k + 1)

\* the data passed to the write calls among `calls`, from the k-th call on
RECURSIVE WritePassed(_, _)
WritePassed(calls, k) ==
    IF k > Len(calls) THEN 0
    ELSE (IF IsRead(calls[k].point) THEN 0 ELSE calls[k].n)
            + WritePassed(calls, k + 1)

\* C29: within one window fileReadBytes is the total length of the data that
\* successful callback reads delivered (a read that reports an error or
\* delivers no data adds 0) and fileWriteBytes the total byte length of the
\* data passed to write calls, added when the write is issued, whether or not
\* it later succeeds.
C29_FileAccounting ==
    \A i \in Inv :
        Recorded(i) =>
            /\ metrics[i].fileReadBytes = ReadDelivered(fsCalls[i], 1)
            /\ metrics[i].fileWriteBytes = WritePassed(fsCalls[i], 1)

\* a record after a read that delivered one byte and a write of one byte that
\* failed afterwards
C29_Witness ==
    \E i \in Inv :
        /\ Recorded(i)
        /\ \E c \in FsCallsOf(i) :
              c.point = "readFile" /\ c.state = "done" /\ c.ok /\ c.n = 1 /\ c.inWindow
        /\ \E c \in FsCallsOf(i) :
              c.point = "writeFile" /\ c.state = "done" /\ ~c.ok /\ c.n = 1
        /\ metrics[i].fileReadBytes = 1
        /\ metrics[i].fileWriteBytes = 1

\* the caller holds the Result of invocation i, and it carries the record
HasMetric(i) ==
    /\ pc[i] = "returned"
    /\ ret[i].state = "resolved"
    /\ "metric" \in DOMAIN ret[i].value

\* the record and the report of a Result, as the caller reads them
KeptParts(r) == [k \in DOMAIN r \cap {"metric", "report"} |-> r[k]]

\* C31: once estimateGas has returned a Result with a metric, no later step
\* (a late hook callback that increments the Meter's counters, reset(),
\* setOptions, or a later invocation on the same Meter) changes any field of
\* the record the caller holds or of its report.
C31_RecordNeverMutated ==
    [][\A i \in Inv :
          HasMetric(i) =>
              /\ HasMetric(i)'
              /\ KeptParts(ret'[i].value) = KeptParts(ret[i].value)]_vars

\* the caller holds a record of one byte sent and none received; since it was
\* returned the response of its request has arrived and been counted on the
\* Meter during a later invocation on the same Meter, setOptions has changed
\* the Meter's configuration, and reset() has zeroed its counters
C31_Witness ==
    \E i, j \in Inv :
        /\ i < j
        /\ meter[i] = meter[j]
        /\ HasMetric(i)
        /\ "report" \in DOMAIN ret[i].value
        /\ ret[i].value.metric.sentBytes = 1
        /\ ret[i].value.metric.receivedBytes = 0
        /\ pc[j] = "returned"
        /\ late[j].receivedBytes = 1
        /\ metrics[j].receivedBytes = 1
        /\ "label" \in DOMAIN options[meter[i]]
        /\ cfgCall.op = "reset"
        /\ counters[meter[i]] = ZeroCounters

====
